---- MODULE Spec2Model ----
(***************************************************************************)
(* A model of PiNN's command line trainer (pinn/trainer.py) and of the     *)
(* potential tests (tests/test_potential.py).                              *)
(*                                                                         *)
(*  SpecMain  main(): argparse's parse of the command line and the call of *)
(*            trainner.                                                    *)
(*  Spec      trainner(): one run, statement by statement, with the files  *)
(*            it reads as the environment.                                 *)
(*  SpecTest  test_pinn_potential / test_bpnn_potential run one after the  *)
(*            other in one process.                                        *)
(*                                                                         *)
(* Python values: an Optional is a sequence of length at most one (None is *)
(* <<>>), a dict is a function or record whose DOMAIN is its key set.      *)
(***************************************************************************)
EXTENDS Integers, Sequences, FiniteSets, TLC

VARIABLES
  argv,        \* the command line: option |-> <<>> (absent) or <<raw string>>
  args,        \* the namespace parse_args returned, <<>> before
  pc,          \* position of main / trainner
  targs,       \* the parameters trainner was called with
  paramsFile,  \* the parameter file on disk
  trainFile,   \* the training data on disk
  evalFile,    \* the evaluation data on disk
  params,      \* trainner's local `params`, <<>> before the load
  dressCalls,  \* the calls of get_atomic_dress so far
  model,       \* <<the record potential_model was called with>>, <<>> before
  specs,       \* <<train_spec, eval_spec>>, <<>> before
  taeCall,     \* <<the arguments of train_and_evaluate>>, <<>> before
  trainDs,     \* the dataset train_fn returned, <<>> before it is called
  evalDs,      \* the dataset eval_fn returned, <<>> before it is called
  taeResult,   \* what train_and_evaluate returned, <<>> before
  ret,         \* <<what trainner returned>>, <<>> while it has not returned
  exc,         \* the exception that left trainner, "" when none
  attempts,    \* step |-> how many times it was started
  tpc,         \* position of the test process
  test,        \* index of the running test function
  testpath,    \* the running test's temporary directory, <<>> before mkdtemp
  tmpdirs,     \* the temporary directories that exist
  outcome      \* test index |-> how the test function ended

mainVars == <<argv, args>>
envVars == <<paramsFile, trainFile, evalFile>>
trainVars == <<targs, params, dressCalls, model, specs, taeCall, trainDs,
               evalDs, taeResult, ret, exc, attempts>>
testVars == <<tpc, test, testpath, tmpdirs, outcome>>
vars == <<pc, mainVars, envVars, trainVars, testVars>>

----------------------------------------------------------------------------
(* Bounds *)

\* integers an option or a step budget ranges over: 0..MaxInt
MaxInt == 2
\* atomic numbers range over 1..NumElems
NumElems == 2
\* temporary directory names mkdtemp can hand out
NumTmpNames == 3

----------------------------------------------------------------------------
(* Python values *)

None == <<>>
Some(v) == <<v>>
Maybe(S) == {None} \cup {Some(v) : v \in S}

\* d[k] = v on a dict: the key is added when it is missing
SetItem(d, k, v) == [j \in DOMAIN d \cup {k} |-> IF j = k THEN v ELSE d[j]]

\* bool(s) of a str: its truthiness, len(s) > 0
boolLiteral(s) == s = "True"
bool(s) == Len(s) > 0

\* int(s) of a str: the integer whose decimal numeral s is; ValueError otherwise
IsNumeral(s) == \E n \in 0..MaxInt : ToString(n) = s
int(s) == CHOOSE n \in 0..MaxInt : ToString(n) = s

----------------------------------------------------------------------------
(* main: the argument parser *)

StrOptions == {"model_dir", "params_file", "train_data", "eval_data"}
IntOptions == {"train_steps", "eval_steps", "batch_size", "shuffle_buffer"}
BoolOptions == {"preprocess", "cache_data", "regen_dress"}
Options == StrOptions \cup IntOptions \cup BoolOptions

Required == {"model_dir", "params_file", "train_data", "eval_data", "train_steps"}

DefaultEvalSteps == 100
DefaultShuffleBuffer == 100

\* the default= of each optional add_argument
Default(o) ==
  CASE o = "eval_steps" -> DefaultEvalSteps
    [] o = "batch_size" -> None
    [] o = "preprocess" -> FALSE
    [] o = "cache_data" -> TRUE
    [] o = "shuffle_buffer" -> DefaultShuffleBuffer
    [] o = "regen_dress" -> TRUE

\* the type= of each add_argument applied to the raw string
Convert(o, s) ==
  CASE o \in StrOptions -> s
    [] o = "batch_size" -> Some(int(s))
    [] o \in IntOptions \ {"batch_size"} -> int(s)
    [] o \in BoolOptions -> bool(s)

\* type= raises ValueError on the raw string: argparse reports "invalid value"
Invalid(o, s) == o \in IntOptions /\ ~IsNumeral(s)

\* parse_args exits with a usage error
UsageError(av) ==
  \/ \E o \in Required : av[o] = None
  \/ \E o \in Options : av[o] # None /\ Invalid(o, av[o][1])

\* the namespace parse_args returns
Namespace(av) ==
  [o \in Options |-> IF av[o] = None THEN Default(o) ELSE Convert(o, av[o][1])]

\* the positional call trainner(args.model_dir, ..., args.regen_dress)
Forward(a) ==
  [model_dir |-> a["model_dir"], params_file |-> a["params_file"],
   train_data |-> a["train_data"], eval_data |-> a["eval_data"],
   train_steps |-> a["train_steps"], eval_steps |-> a["eval_steps"],
   batch_size |-> a["batch_size"], preprocess |-> a["preprocess"],
   cache_data |-> a["cache_data"], shuffle_buffer |-> a["shuffle_buffer"],
   regen_dress |-> a["regen_dress"]]

----------------------------------------------------------------------------
(* The environment of trainner: the files it is pointed at *)

ModelDir == "my_model"
ParamsPath == "params.yml"
TrainPath == "train.yml"
EvalPath == "test.yml"

Elems == 1..NumElems
NetworkNames == {"pinn_network", "bpnn_network"}

\* model_params as a parameter file can give it: with or without an e_dress,
\* whose entries are all configured as 0
ModelParamsChoices ==
  {[use_force |-> TRUE]}
    \cup {[use_force |-> TRUE, e_dress |-> [e \in S |-> 0]] :
            S \in SUBSET Elems}

\* the mapping a well-formed parameter file holds
ContentChoices ==
  LET base == [network : {"pinn_network", "no_such_network"},
               network_params : {"network_params"}]
      withMp == base \cup {SetItem(b, "model_params", mp) :
                             b \in base, mp \in ModelParamsChoices}
  IN  withMp \cup {SetItem(c, "model_dir", "dir_in_file") : c \in withMp}

ParamsFileChoices ==
  {[status |-> "missing"], [status |-> "malformed"]}
    \cup {[status |-> "ok", content |-> c] : c \in ContentChoices}

\* a tfrecord data set on disk: the elements it holds, each with the baseline
\* a fit to the data gives it (here its atomic number, never the configured 0)
DataFileChoices ==
  {[exists |-> FALSE]}
    \cup {[exists |-> TRUE, fit |-> [e \in S |-> e]] : S \in SUBSET Elems}

Disk(fname) == IF fname = TrainPath THEN trainFile ELSE evalFile

----------------------------------------------------------------------------
(* External calls of trainner *)

\* pinn.io.load_tfrecord: the data set read from the file
load_tfrecord(fname) == <<[op |-> "load", fname |-> fname]>>

\* pinn.utils.get_atomic_dress: the baseline of each requested element,
\* fitted to the data set; an element the data does not hold gets 0
get_atomic_dress(fname, elems) ==
  LET fit == Disk(fname).fit
  IN  [e \in elems |-> IF e \in DOMAIN fit THEN fit[e] ELSE 0]

\* potential_model / the model function accept the record
ValidParams(p) == "model_params" \in DOMAIN p /\ p.network \in NetworkNames

----------------------------------------------------------------------------
(* trainner *)

Steps == {"load", "dress", "build", "run"}

Attempt(s) == attempts' = [attempts EXCEPT ![s] = @ + 1]

\* an exception leaves trainner: nothing catches it
Raise(e) == exc' = e /\ pc' = "failed"

\* with FileIO(params_file, 'r') as f: params = yaml.load(f)
LoadParamsRetry ==
  /\ pc = "load"
  /\ attempts["load"] < 2
  /\ Attempt("load")
  /\ \/ /\ paramsFile.status # "ok"
        /\ UNCHANGED <<pc, exc, params>>
     \/ /\ paramsFile.status = "ok"
        /\ params' = paramsFile.content
        /\ pc' = "inject"
        /\ exc' = exc
  /\ UNCHANGED <<mainVars, envVars, testVars, targs, dressCalls, model, specs,
                 taeCall, trainDs, evalDs, taeResult, ret>>
LoadParams ==
  /\ pc = "load"
  /\ Attempt("load")
  /\ \/ /\ paramsFile.status = "missing"
        /\ Raise("NotFoundError")
        /\ params' = params
     \/ /\ paramsFile.status = "malformed"
        /\ Raise("YAMLError")
        /\ params' = params
     \/ /\ paramsFile.status = "ok"
        /\ params' = paramsFile.content
        /\ pc' = "inject"
        /\ exc' = exc
  /\ UNCHANGED <<mainVars, envVars, testVars, targs, dressCalls, model, specs,
                 taeCall, trainDs, evalDs, taeResult, ret>>

\* params['model_dir'] = model_dir
InjectModelDir ==
  /\ pc = "inject"
  /\ params' = SetItem(params, "model_dir", targs.model_dir)
  /\ pc' = "dress"
  /\ UNCHANGED <<mainVars, envVars, testVars, targs, dressCalls, model, specs,
                 taeCall, trainDs, evalDs, taeResult, ret, exc, attempts>>

\* regen_dress and 'e_dress' in params['model_params']
ShouldRegen(regen_dress, p) ==
  regen_dress /\ "e_dress" \in DOMAIN p.model_params

\* elems = list(params['model_params']['e_dress'].keys())
DressElemsWithData(p) ==
  DOMAIN p.model_params.e_dress \cup DOMAIN trainFile.fit
DressElems(p) == DOMAIN p.model_params.e_dress

\* if regen_dress and 'e_dress' in params['model_params']: ...
RegenDress ==
  /\ pc = "dress"
  /\ \/ /\ targs.regen_dress
        /\ "model_params" \notin DOMAIN params
        /\ Raise("KeyError")
        /\ UNCHANGED <<params, dressCalls, attempts>>
     \/ /\ targs.regen_dress => "model_params" \in DOMAIN params
        /\ ~ShouldRegen(targs.regen_dress, params)
        /\ pc' = "build"
        /\ UNCHANGED <<params, dressCalls, attempts, exc>>
     \/ /\ targs.regen_dress => "model_params" \in DOMAIN params
        /\ ShouldRegen(targs.regen_dress, params)
        /\ Attempt("dress")
        /\ LET elems == DressElems(params)
           IN  IF ~Disk(targs.train_data).exists
               THEN /\ Raise("NotFoundError")
                    /\ UNCHANGED <<params, dressCalls>>
               ELSE LET dress == get_atomic_dress(targs.train_data, elems)
                    IN  /\ dressCalls' =
                             Append(dressCalls,
                                    [data |-> load_tfrecord(targs.train_data),
                                     elems |-> elems, result |-> dress])
                        /\ params' =
                             [params EXCEPT !.model_params =
                                SetItem(@, "e_dress", dress)]
                        /\ pc' = "build"
                        /\ exc' = exc
  /\ UNCHANGED <<mainVars, envVars, testVars, targs, model, specs, taeCall,
                 trainDs, evalDs, taeResult, ret>>

\* model = potential_model(params)
BuildModel ==
  /\ pc = "build"
  /\ Attempt("build")
  /\ \/ /\ ~ValidParams(params)
        /\ Raise("ModelError")
        /\ model' = model
     \/ /\ model' = Some(params)
        /\ pc' = "specs"
        /\ exc' = exc
  /\ UNCHANGED <<mainVars, envVars, testVars, targs, params, dressCalls, specs,
                 taeCall, trainDs, evalDs, taeResult, ret>>

\* def _dataset_fn(fname): ... return dataset
_dataset_fn_cache_first(fname) ==
  load_tfrecord(fname)
    \o (IF targs.batch_size # None
        THEN <<[op |-> "batch", batch_size |-> targs.batch_size[1]]>>
        ELSE <<>>)
    \o (IF targs.cache_data THEN <<[op |-> "cache"]>> ELSE <<>>)
    \o (IF targs.preprocess
        THEN <<[op |-> "map", fn |-> params.network,
                kw |-> params.network_params]>>
        ELSE <<>>)
_dataset_fn(fname) ==
  load_tfrecord(fname)
    \o (IF targs.batch_size # None
        THEN <<[op |-> "batch", batch_size |-> targs.batch_size[1]]>>
        ELSE <<>>)
    \o (IF targs.preprocess
        THEN <<[op |-> "map", fn |-> params.network,
                kw |-> params.network_params]>>
        ELSE <<>>)
    \o (IF targs.cache_data THEN <<[op |-> "cache"]>> ELSE <<>>)

\* what _dataset_fn(fname) raises, "" when it returns
dataset_fn_error(fname) ==
  IF ~Disk(fname).exists THEN "NotFoundError"
  ELSE IF targs.preprocess /\ params.network \notin NetworkNames
       THEN "AttributeError"
       ELSE ""

\* train_fn = lambda: _dataset_fn(train_data).repeat().shuffle(shuffle_buffer)
train_fn ==
  _dataset_fn(targs.train_data)
    \o <<[op |-> "repeat"], [op |-> "shuffle", buffer |-> targs.shuffle_buffer]>>

\* eval_fn = lambda: _dataset_fn(eval_data)
eval_fn_as_train ==
  _dataset_fn(targs.eval_data)
    \o <<[op |-> "repeat"], [op |-> "shuffle", buffer |-> targs.shuffle_buffer]>>
eval_fn == _dataset_fn(targs.eval_data)

\* train_spec = TrainSpec(...); eval_spec = EvalSpec(...)
MakeSpecsSwapped ==
  <<[input_fn |-> "train_fn", max_steps |-> targs.eval_steps],
    [input_fn |-> "eval_fn", steps |-> targs.train_steps]>>
MakeSpecs ==
  <<[input_fn |-> "train_fn", max_steps |-> targs.train_steps],
    [input_fn |-> "eval_fn", steps |-> targs.eval_steps]>>

\* the definitions of _dataset_fn, train_fn, eval_fn, train_spec and eval_spec
DefineSpecsResolving ==
  /\ pc = "specs"
  /\ specs' = MakeSpecs
  /\ params' = SetItem(params, "network", "resolved")
  /\ pc' = "run"
  /\ UNCHANGED <<mainVars, envVars, testVars, targs, dressCalls, model,
                 taeCall, trainDs, evalDs, taeResult, ret, exc, attempts>>
DefineSpecs ==
  /\ pc = "specs"
  /\ specs' = MakeSpecs
  /\ pc' = "run"
  /\ UNCHANGED <<mainVars, envVars, testVars, targs, params, dressCalls, model,
                 taeCall, trainDs, evalDs, taeResult, ret, exc, attempts>>

\* tf.estimator.train_and_evaluate(model, train_spec, eval_spec) is entered
CallTrainAndEvaluate ==
  /\ pc = "run"
  /\ Attempt("run")
  /\ taeCall' = Some([model |-> model[1], train_spec |-> specs[1],
                      eval_spec |-> specs[2]])
  /\ pc' = "train_input"
  /\ UNCHANGED <<mainVars, envVars, testVars, targs, params, dressCalls, model,
                 specs, trainDs, evalDs, taeResult, ret, exc>>

\* train_and_evaluate calls train_spec.input_fn()
TrainInputFn ==
  /\ pc = "train_input"
  /\ IF dataset_fn_error(targs.train_data) # ""
     THEN /\ Raise(dataset_fn_error(targs.train_data))
          /\ trainDs' = trainDs
     ELSE /\ trainDs' = train_fn
          /\ pc' = "model_fn"
          /\ exc' = exc
  /\ UNCHANGED <<mainVars, envVars, testVars, targs, params, dressCalls, model,
                 specs, taeCall, evalDs, taeResult, ret, attempts>>

\* train_and_evaluate has the estimator build its graph from the record the
\* model was constructed with
ModelFn ==
  /\ pc = "model_fn"
  /\ IF ~ValidParams(model[1])
     THEN Raise("ModelError")
     ELSE pc' = "eval_input" /\ exc' = exc
  /\ UNCHANGED <<mainVars, envVars, testVars, targs, params, dressCalls, model,
                 specs, taeCall, trainDs, evalDs, taeResult, ret, attempts>>

\* train_and_evaluate calls eval_spec.input_fn()
EvalInputFn ==
  /\ pc = "eval_input"
  /\ IF dataset_fn_error(targs.eval_data) # ""
     THEN /\ Raise(dataset_fn_error(targs.eval_data))
          /\ evalDs' = evalDs
     ELSE /\ evalDs' = eval_fn
          /\ pc' = "finish"
          /\ exc' = exc
  /\ UNCHANGED <<mainVars, envVars, testVars, targs, params, dressCalls, model,
                 specs, taeCall, trainDs, taeResult, ret, attempts>>

\* what train_and_evaluate can return: (eval metrics, export results)
Metrics == {<<"metrics_a", "export">>, <<"metrics_b", "export">>}

\* train_and_evaluate returns
TrainAndEvaluateReturns ==
  /\ pc = "finish"
  /\ \E m \in Metrics : taeResult' = Some(m)
  /\ pc' = "return"
  /\ UNCHANGED <<mainVars, envVars, testVars, targs, params, dressCalls, model,
                 specs, taeCall, trainDs, evalDs, ret, exc, attempts>>

\* the call of train_and_evaluate is an expression statement, the last of
\* trainner: its value is dropped and trainner returns None
TrainnerReturns ==
  /\ pc = "return"
  /\ ret' = Some(None)
  /\ pc' = "done"
  /\ UNCHANGED <<mainVars, envVars, testVars, targs, params, dressCalls, model,
                 specs, taeCall, trainDs, evalDs, taeResult, exc, attempts>>

----------------------------------------------------------------------------
(* Specifications *)

TestIdle ==
  /\ tpc = "idle"
  /\ test = 0
  /\ testpath = None
  /\ tmpdirs = {}
  /\ outcome = <<>>

MainIdle ==
  /\ argv = <<>>
  /\ args = <<>>

EnvChoice ==
  /\ paramsFile \in ParamsFileChoices
  /\ trainFile \in DataFileChoices
  /\ evalFile \in {[exists |-> FALSE], [exists |-> TRUE]}

TrainnerEntry ==
  /\ params = <<>>
  /\ dressCalls = <<>>
  /\ model = None
  /\ specs = <<>>
  /\ taeCall = None
  /\ trainDs = <<>>
  /\ evalDs = <<>>
  /\ taeResult = None
  /\ ret = None
  /\ exc = ""
  /\ attempts = [s \in Steps |-> 0]

\* trainner is entered with parameters of the declared kinds
Init ==
  /\ pc = "load"
  /\ targs \in [model_dir : {ModelDir}, params_file : {ParamsPath},
                train_data : {TrainPath}, eval_data : {EvalPath},
                train_steps : 1..MaxInt, eval_steps : {DefaultEvalSteps},
                batch_size : Maybe(0..MaxInt),
                preprocess : BOOLEAN, cache_data : BOOLEAN,
                shuffle_buffer : {DefaultShuffleBuffer},
                regen_dress : BOOLEAN]
  /\ EnvChoice
  /\ TrainnerEntry
  /\ MainIdle
  /\ TestIdle

Next ==
  \/ LoadParams
  \/ InjectModelDir
  \/ RegenDress
  \/ BuildModel
  \/ DefineSpecs
  \/ CallTrainAndEvaluate
  \/ TrainInputFn
  \/ ModelFn
  \/ EvalInputFn
  \/ TrainAndEvaluateReturns
  \/ TrainnerReturns

Spec == Init /\ [][Next]_vars

----------------------------------------------------------------------------
(* main *)

\* the raw strings the command line can give an option
IntRaw == {ToString(n) : n \in 0..MaxInt} \cup {"1e6"}
BoolRaw == {"", "0", "False", "True"}

\* args = parser.parse_args()
Parse ==
  /\ pc = "main"
  /\ IF UsageError(argv)
     THEN pc' = "usage_error" /\ args' = args
     ELSE pc' = "parsed" /\ args' = Namespace(argv)
  /\ UNCHANGED <<argv, envVars, trainVars, testVars>>

\* trainner(args.model_dir, ..., args.regen_dress) is entered
CallTrainner ==
  /\ pc = "parsed"
  /\ targs' = Forward(args)
  /\ pc' = "load"
  /\ UNCHANGED <<mainVars, envVars, testVars, params, dressCalls, model, specs,
                 taeCall, trainDs, evalDs, taeResult, ret, exc, attempts>>

InitMain ==
  /\ pc = "main"
  /\ argv \in [model_dir : Maybe({ModelDir}), params_file : {Some(ParamsPath)},
               train_data : {Some(TrainPath)}, eval_data : {Some(EvalPath)},
               train_steps : Maybe(IntRaw), eval_steps : Maybe(IntRaw),
               batch_size : Maybe(IntRaw), shuffle_buffer : Maybe(IntRaw),
               preprocess : Maybe(BoolRaw), cache_data : Maybe(BoolRaw),
               regen_dress : Maybe(BoolRaw)]
  /\ args = <<>>
  /\ targs = <<>>
  /\ paramsFile = [status |-> "missing"]
  /\ trainFile = [exists |-> FALSE]
  /\ evalFile = [exists |-> FALSE]
  /\ TrainnerEntry
  /\ TestIdle

NextMain ==
  \/ Parse
  \/ CallTrainner

SpecMain == InitMain /\ [][NextMain]_vars

----------------------------------------------------------------------------
(* tests/test_potential.py *)

Tests == <<"test_pinn_potential", "test_bpnn_potential">>
TmpNames == 1..NumTmpNames

\* the stages of _potential_tests, in order; each returns or raises
Stages == <<"train_and_evaluate", "calculator", "regression",
            "energy_conservation", "virial_pressure">>

\* testpath = tempfile.mkdtemp()
Mkdtemp ==
  /\ tpc = "mkdtemp"
  /\ \E d \in TmpNames \ tmpdirs :
       /\ testpath' = Some(d)
       /\ tmpdirs' = tmpdirs \cup {d}
  /\ tpc' = Stages[1]
  /\ UNCHANGED <<pc, mainVars, envVars, trainVars, test, outcome>>

\* one stage of _potential_tests(params) passes
StagePasses ==
  /\ \E i \in 1..Len(Stages) :
       /\ tpc = Stages[i]
       /\ tpc' = IF i < Len(Stages) THEN Stages[i + 1] ELSE "rmtree"
  /\ UNCHANGED <<pc, mainVars, envVars, trainVars, test, testpath, tmpdirs,
                 outcome>>

\* one stage of _potential_tests(params) raises: the exception leaves
\* _potential_tests and the test function
StageRaises ==
  /\ \E i \in 1..Len(Stages) : tpc = Stages[i]
  /\ outcome' = Append(outcome, [test |-> Tests[test], raised |-> tpc])
  /\ tpc' = "exited"
  /\ UNCHANGED <<pc, mainVars, envVars, trainVars, test, testpath, tmpdirs>>

\* rmtree(testpath), the last statement of the test function
Rmtree ==
  /\ tpc = "rmtree"
  /\ tmpdirs' = tmpdirs \ {testpath[1]}
  /\ outcome' = Append(outcome, [test |-> Tests[test], raised |-> ""])
  /\ tpc' = "exited"
  /\ UNCHANGED <<pc, mainVars, envVars, trainVars, test, testpath>>

\* the runner goes on to the next test function
NextTest ==
  /\ tpc = "exited"
  /\ test < Len(Tests)
  /\ test' = test + 1
  /\ testpath' = None
  /\ tpc' = "mkdtemp"
  /\ UNCHANGED <<pc, mainVars, envVars, trainVars, tmpdirs, outcome>>

InitTest ==
  /\ tpc = "mkdtemp"
  /\ test = 1
  /\ testpath = None
  /\ tmpdirs = {}
  /\ outcome = <<>>
  /\ pc = "idle"
  /\ MainIdle
  /\ targs = <<>>
  /\ paramsFile = [status |-> "missing"]
  /\ trainFile = [exists |-> FALSE]
  /\ evalFile = [exists |-> FALSE]
  /\ TrainnerEntry

NextTestRun ==
  \/ Mkdtemp
  \/ StagePasses
  \/ StageRaises
  \/ Rmtree
  \/ NextTest

SpecTest == InitTest /\ [][NextTestRun]_vars

----------------------------------------------------------------------------
(* Properties of trainner (Spec) *)

\* the mapping the parameter file held when it was loaded
Loaded == paramsFile.content

\* the parameter file configures an energy dress
Configured ==
  /\ "model_params" \in DOMAIN Loaded
  /\ "e_dress" \in DOMAIN Loaded.model_params

\* the dress statement (lines 56-59) has been passed without an exception
PastDress == pc = "build" \/ attempts["build"] > 0

\* C1: the dress is recomputed exactly when regen_dress holds and the loaded
\* record has model_params.e_dress; get_atomic_dress is then called once, on
\* the training data and the keys of the configured e_dress, and its result
\* becomes model_params.e_dress; otherwise model_params stays as loaded and
\* gets no e_dress key.
C1_RegenDress ==
  /\ dressCalls # <<>> =>
       /\ targs.regen_dress /\ Configured
       /\ Len(dressCalls) = 1
       /\ dressCalls[1].data = <<[op |-> "load", fname |-> TrainPath]>>
       /\ dressCalls[1].elems = DOMAIN Loaded.model_params.e_dress
       /\ params.model_params.e_dress = dressCalls[1].result
       /\ DOMAIN params.model_params = DOMAIN Loaded.model_params
  /\ PastDress =>
       /\ dressCalls # <<>> <=> (targs.regen_dress /\ Configured)
       /\ dressCalls = <<>> =>
            IF "model_params" \in DOMAIN Loaded
            THEN params.model_params = Loaded.model_params
            ELSE "model_params" \notin DOMAIN params

\* a dress was recomputed from data that also holds an element the
\* configuration does not name, and the stored values changed
C1_Witness ==
  /\ pc = "done"
  /\ dressCalls # <<>>
  /\ ~(DOMAIN trainFile.fit \subseteq dressCalls[1].elems)
  /\ params.model_params.e_dress # Loaded.model_params.e_dress

\* the place of each stage in a pipeline
Rank(op) ==
  CASE op = "load" -> 1 [] op = "batch" -> 2 [] op = "map" -> 3
    [] op = "cache" -> 4 [] op = "repeat" -> 5 [] op = "shuffle" -> 6

\* the stages of ds are in pipeline order, none twice
InOrder(ds) ==
  \A i, j \in 1..Len(ds) : i < j => Rank(ds[i].op) < Rank(ds[j].op)

Has(ds, op) == \E i \in 1..Len(ds) : ds[i].op = op
StageOf(ds, op) == ds[CHOOSE i \in 1..Len(ds) : ds[i].op = op]

\* the optional stages of ds are there exactly under their flags
OptionalStages(ds) ==
  /\ Has(ds, "batch") <=> targs.batch_size # None
  /\ Has(ds, "batch") => StageOf(ds, "batch").batch_size = targs.batch_size[1]
  /\ Has(ds, "map") <=> targs.preprocess
  /\ Has(ds, "map") => StageOf(ds, "map").fn = params.network
  /\ Has(ds, "cache") <=> targs.cache_data

\* C2: the training data set is load, batch (iff batch_size is not None), map
\* (iff preprocess), cache (iff cache_data), repeat, shuffle(shuffle_buffer),
\* in this order.
C2_TrainPipeline ==
  trainDs # <<>> =>
    /\ trainDs[1] = [op |-> "load", fname |-> targs.train_data]
    /\ InOrder(trainDs)
    /\ OptionalStages(trainDs)
    /\ Len(trainDs) >= 3
    /\ trainDs[Len(trainDs) - 1] = [op |-> "repeat"]
    /\ trainDs[Len(trainDs)] =
         [op |-> "shuffle", buffer |-> targs.shuffle_buffer]

\* a training data set with every optional stage, batched by 0
C2_Witness ==
  /\ Len(trainDs) = 6
  /\ targs.batch_size = <<0>>

\* C3: the evaluation data set is loaded from eval_data, is neither repeated
\* nor shuffled, and has the optional stages of the training data set, under
\* the same flags and in the same order.
C3_EvalPipeline ==
  evalDs # <<>> =>
    /\ evalDs[1] = [op |-> "load", fname |-> targs.eval_data]
    /\ ~Has(evalDs, "repeat") /\ ~Has(evalDs, "shuffle")
    /\ InOrder(evalDs)
    /\ OptionalStages(evalDs)
    /\ Tail(evalDs) = SubSeq(trainDs, 2, Len(trainDs) - 2)

\* an evaluation data set with every optional stage
C3_Witness ==
  /\ Len(evalDs) = 4
  /\ targs.eval_data # targs.train_data

\* C4 as stated: trainner returns what train_and_evaluate returned.
C4_ReturnsMetrics == pc = "done" => ret = taeResult

\* C4 as amended: train_and_evaluate gets the constructed model, a training
\* spec of train_steps and an evaluation spec of eval_steps; what it returns
\* is dropped and trainner returns None.
C4_DelegatesDropsResult ==
  /\ taeCall # None =>
       /\ model # None /\ taeCall[1].model = model[1]
       /\ taeCall[1].train_spec =
            [input_fn |-> "train_fn", max_steps |-> targs.train_steps]
       /\ taeCall[1].eval_spec =
            [input_fn |-> "eval_fn", steps |-> targs.eval_steps]
  /\ pc = "done" => taeCall # None /\ taeResult # None /\ ret = <<None>>

\* trainner has returned after train_and_evaluate yielded metrics
C4_Witness ==
  /\ pc = "done"
  /\ taeResult \in {Some(m) : m \in Metrics}
  /\ taeCall[1].train_spec.max_steps # taeCall[1].eval_spec.steps

\* the exception the environment makes a passed statement raise
LoadError ==
  CASE paramsFile.status = "missing" -> "NotFoundError"
    [] paramsFile.status = "malformed" -> "YAMLError"
    [] OTHER -> ""

NotRun(S) == \A s \in S : attempts[s] = 0

\* C6: every step is started at most once; a failure of a step leaves
\* trainner as the exception the step raised, and no later step is started.
C6_NoRetryNoRecovery ==
  /\ \A s \in Steps : attempts[s] <= 1
  /\ (pc = "failed") <=> (exc # "")
  /\ pc = "failed" => ret = None /\ taeResult = None
  /\ attempts["load"] = 1 /\ LoadError # "" =>
       pc = "failed" /\ exc = LoadError /\ NotRun({"dress", "build", "run"})
  /\ attempts["dress"] = 1 /\ ~trainFile.exists =>
       pc = "failed" /\ exc = "NotFoundError" /\ NotRun({"build", "run"})
  /\ attempts["build"] = 1 /\ model = None =>
       pc = "failed" /\ exc = "ModelError" /\ NotRun({"run"})
  /\ attempts["run"] = 1 /\ ~trainFile.exists =>
       pc \in {"train_input", "failed"}
  /\ attempts["run"] = 1 /\ targs.preprocess
       /\ params.network \notin NetworkNames =>
       pc \in {"train_input", "failed"}
  /\ attempts["run"] = 1 /\ ~ValidParams(params) =>
       pc \in {"train_input", "model_fn", "failed"}
  /\ attempts["run"] = 1 /\ ~evalFile.exists =>
       pc \in {"train_input", "model_fn", "eval_input", "failed"}
  /\ pc = "failed" /\ attempts["run"] = 1 =>
       exc \in {"NotFoundError", "AttributeError", "ModelError"}

\* the training data is missing when the dress is to be recomputed
C6_Witness ==
  /\ pc = "failed"
  /\ exc = "NotFoundError"
  /\ attempts = [s \in Steps |-> IF s \in {"load", "dress"} THEN 1 ELSE 0]

\* C9: when potential_model is called the record carries trainner's model_dir
\* (whatever the file gave) and the recomputed dress, if any; from then on the
\* record is not written and no dress is computed.
C9_MutatedThenFrozen ==
  [][/\ model = None /\ model' # None =>
          /\ model'[1] = params
          /\ params.model_dir = targs.model_dir
          /\ dressCalls # <<>> =>
               params.model_params.e_dress = dressCalls[1].result
     /\ model # None =>
          /\ params' = params
          /\ model' = model
          /\ dressCalls' = dressCalls]_vars

\* a run that replaced both the file's model_dir and its dress came to its end
C9_Witness ==
  /\ pc = "done"
  /\ "model_dir" \in DOMAIN Loaded
  /\ Loaded.model_dir = "dir_in_file"
  /\ model[1].model_dir = ModelDir
  /\ dressCalls # <<>>
  /\ model[1].model_params.e_dress # Loaded.model_params.e_dress

----------------------------------------------------------------------------
(* Properties of main (SpecMain) *)

\* the value a raw string stands for, read as a literal of the option's kind
Given(o, s) ==
  CASE o \in StrOptions -> s
    [] o = "batch_size" -> Some(int(s))
    [] o \in IntOptions \ {"batch_size"} -> int(s)
    [] o \in BoolOptions -> (s = "True")

\* C5 as stated: trainner receives, under each parameter name, the value the
\* command line gave the option of that name, or the declared default.
C5_ForwardsGivenValues ==
  pc = "load" =>
    \A o \in Options :
      targs[o] = IF argv[o] = None THEN Default(o) ELSE Given(o, argv[o][1])

\* C10: a boolean option is forwarded as its declared default (False, True,
\* True) when absent, and else as whether its raw string is non-empty.
C10_BoolFlagTruthiness ==
  pc = "load" =>
    /\ targs.preprocess =
         IF argv.preprocess = None THEN FALSE ELSE argv.preprocess[1] # ""
    /\ targs.cache_data =
         IF argv.cache_data = None THEN TRUE ELSE argv.cache_data[1] # ""
    /\ targs.regen_dress =
         IF argv.regen_dress = None THEN TRUE ELSE argv.regen_dress[1] # ""
    /\ \A o \in {"cache_data", "regen_dress"} :
         argv[o] # None /\ argv[o][1] # "" => targs[o]

\* --cache-data=0 --regen-dress=False --preprocess= reached trainner
C10_Witness ==
  /\ pc = "load"
  /\ argv.cache_data = <<"0">> /\ targs.cache_data
  /\ argv.regen_dress = <<"False">> /\ targs.regen_dress
  /\ argv.preprocess = <<"">> /\ ~targs.preprocess

----------------------------------------------------------------------------
(* Properties of the tests (SpecTest) *)

\* C7 as stated: when a test function has exited, however _potential_tests
\* ended, its temporary directory no longer exists.
C7_TmpDirRemoved == tpc = "exited" => testpath[1] \notin tmpdirs

====
